---- MODULE Spec2Model ----
(***************************************************************************)
(* A model of torchgeo/datasets/etci2021.py: the ETCI2021 flood-detection  *)
(* dataset.  Strings are sequences of one-character strings, so that       *)
(* str.replace, sorted() and glob act on them as they do in Python.        *)
(* Tensors and arrays are nested sequences (outermost axis first).         *)
(***************************************************************************)
EXTENDS Integers, Sequences, FiniteSets, TLC

VARIABLES
    dirs,   \* the split directories that exist on disk (their paths)
    tree,   \* the listing of a split directory: <<entry, file>> pairs, one per
            \* file <split directory>/<entry>/tiles/vv/<file>
    ds,     \* the ETCI2021 object: its fields, or how construction ended
    call,   \* the last operation run, with its inputs and what it touched
    ret     \* what that operation returned or raised

vars == <<dirs, tree, ds, call, ret>>

-----------------------------------------------------------------------------
(* Bounds of the model.                                                    *)

MaxFolders == 2     \* entries under a split directory
MaxTiles == 3       \* file names under an entry's tiles/vv
MaxEntries == 3     \* files in one listing
MaxRot == 2         \* enumeration orders of a directory scan
MaxDim == 2         \* height and width of a decoded image
MaxIndex == 3       \* |index| handed to __getitem__

-----------------------------------------------------------------------------
(* Python strings.                                                         *)

\* The characters of the paths, in code-point order.
CodePoints ==
    << <<"-", 45>>, <<".", 46>>, <<"/", 47>>, <<"0", 48>>, <<"1", 49>>,
       <<"_", 95>>, <<"a", 97>>, <<"b", 98>>, <<"d", 100>>, <<"e", 101>>,
       <<"f", 102>>, <<"g", 103>>, <<"h", 104>>, <<"i", 105>>,
       <<"l", 108>>, <<"n", 110>>, <<"o", 111>>, <<"p", 112>>,
       <<"r", 114>>, <<"s", 115>>, <<"t", 116>>, <<"v", 118>>,
       <<"w", 119>>, <<"x", 120>>, <<"y", 121>> >>

Chars == {CodePoints[i][1] : i \in 1..Len(CodePoints)}

ord ==
    [c \in Chars |-> CodePoints[CHOOSE i \in 1..Len(CodePoints) :
                                    CodePoints[i][1] = c][2]]

\* s < t for Python strings: by code point, a proper prefix first.
RECURSIVE str_lt(_, _)
str_lt(s, t) ==
    IF t = <<>> THEN FALSE
    ELSE IF s = <<>> THEN TRUE
    ELSE IF Head(s) = Head(t) THEN str_lt(Tail(s), Tail(t))
    ELSE ord[Head(s)] < ord[Head(t)]

startswith(s, prefix) ==
    /\ Len(prefix) <= Len(s)
    /\ SubSeq(s, 1, Len(prefix)) = prefix

endswith(s, suffix) ==
    /\ Len(suffix) <= Len(s)
    /\ SubSeq(s, Len(s) - Len(suffix) + 1, Len(s)) = suffix

\* str.replace(old, new) with its count argument, for a non-empty old:
\* the first count non-overlapping occurrences, from the left.
RECURSIVE replace_count(_, _, _, _)
replace_count(s, old, new, count) ==
    IF s = <<>> \/ count = 0 THEN s
    ELSE IF startswith(s, old)
         THEN new \o replace_count(SubSeq(s, Len(old) + 1, Len(s)), old, new,
                                   count - 1)
         ELSE <<Head(s)>> \o replace_count(Tail(s), old, new, count)

\* str.replace(old, new, 1): the leftmost occurrence only.
replace_first(s, old, new) ==
    replace_count(s, old, new, 1)

\* str.replace(old, new): count defaults to -1, every occurrence.
replace(s, old, new) ==
    replace_count(s, old, new, -1)

\* The occurrences of sub in s, overlapping ones included.
Occurrences(s, sub) ==
    {i \in 1..Len(s) : startswith(SubSeq(s, i, Len(s)), sub)}

-----------------------------------------------------------------------------
(* Sorting and directory scans.                                            *)

RECURSIVE Insert(_, _)
Insert(x, sq) ==
    IF sq = <<>> THEN <<x>>
    ELSE IF str_lt(x, Head(sq)) THEN <<x>> \o sq
    ELSE <<Head(sq)>> \o Insert(x, Tail(sq))

RECURSIVE InsertionSort(_)
InsertionSort(sq) ==
    IF sq = <<>> THEN <<>> ELSE Insert(Head(sq), InsertionSort(Tail(sq)))

\* The list as the scan returned it.
unsorted(iterable) ==
    iterable

\* sorted(iterable) over strings.
sorted(iterable) ==
    InsertionSort(iterable)

RECURSIVE SetToSeq(_)
SetToSeq(S) ==
    IF S = {} THEN <<>>
    ELSE LET x == CHOOSE y \in S : TRUE IN <<x>> \o SetToSeq(S \ {x})

Reverse(sq) ==
    [i \in 1..Len(sq) |-> sq[Len(sq) + 1 - i]]

Rotate(sq, k) ==
    IF sq = <<>> THEN sq
    ELSE [i \in 1..Len(sq) |-> sq[((i - 1 + k) % Len(sq)) + 1]]

\* The orders a directory scan may enumerate its entries in: a rotation of
\* the names, read forwards or backwards.
ScanOrders == [rot : 0..MaxRot, rev : BOOLEAN]

Enumerate(S, order) ==
    LET base == Rotate(InsertionSort(SetToSeq(S)), order.rot)
    IN  IF order.rev THEN Reverse(base) ELSE base

-----------------------------------------------------------------------------
(* Paths and the file system.                                              *)

os_path_join(a, b) ==
    IF startswith(b, <<"/">>) THEN b
    ELSE IF a = <<>> \/ endswith(a, <<"/">>) THEN a \o b
    ELSE a \o <<"/">> \o b

tiles == <<"t", "i", "l", "e", "s">>
vv == <<"v", "v">>
vh == <<"v", "h">>
_vv_png == <<"_", "v", "v", ".", "p", "n", "g">>
dot_png == <<".", "p", "n", "g">>
water_body_label ==
    <<"w", "a", "t", "e", "r", "_", "b", "o", "d", "y", "_",
      "l", "a", "b", "e", "l">>
flood_label == <<"f", "l", "o", "o", "d", "_", "l", "a", "b", "e", "l">>

\* metadata[split]['directory']
metadata ==
    [train |-> [directory |-> <<"t", "r", "a", "i", "n">>,
                filename |-> "train.zip",
                md5 |-> "1e95792fe0f6e3c9000abdeab2a8ab0f"],
     val   |-> [directory |-> <<"t", "e", "s", "t">>,
                filename |-> "val_with_ref_labels.zip",
                md5 |-> "fd18cecb318efc69f8319f90c3771bdf"],
     test  |-> [directory |-> <<"t", "e", "s", "t", "_", "i", "n", "t", "e",
                                "r", "n", "a", "l">>,
                filename |-> "test_without_ref_labels.zip",
                md5 |-> "da9fa69e1498bd49d5c766338c6dac3d"]]

Splits == DOMAIN metadata

\* The root directories tried: the default 'data', and one holding 'vv'.
data == <<"d", "a", "t", "a">>
Roots == {data, vv}

FolderList == << <<"a", "-", "b">>, <<"a">>, vv, <<"b">> >>
TileList ==
    << <<"v", "v">> \o _vv_png,
       <<"n", ".", "t", "x", "t">>,
       <<"1">> \o _vv_png,
       <<".", "h">> \o _vv_png,
       <<"0">> \o _vv_png >>

FolderNames == {FolderList[i] : i \in 1..MaxFolders}
TileNames == {TileList[i] : i \in 1..MaxTiles}

Trees == {t \in SUBSET (FolderNames \X TileNames) : Cardinality(t) <= MaxEntries}

SplitDirs(root) == {os_path_join(root, metadata[s].directory) : s \in Splits}

\* Every file path on disk.
FilePaths(dirs_, tree_) ==
    {os_path_join(os_path_join(os_path_join(os_path_join(d, e[1]), tiles), vv),
                  e[2]) : d \in dirs_, e \in tree_}

\* The first component of a relative path.
RECURSIVE FirstComponent(_)
FirstComponent(p) ==
    IF p = <<>> \/ Head(p) = "/" THEN <<>>
    ELSE <<Head(p)>> \o FirstComponent(Tail(p))

\* os.scandir(dirname): the names directly under dirname.
listdir(dirs_, tree_, dirname) ==
    LET prefix == dirname \o <<"/">>
    IN  {FirstComponent(SubSeq(p, Len(prefix) + 1, Len(p))) :
            p \in {q \in FilePaths(dirs_, tree_) : startswith(q, prefix)}}

\* fnmatch of a name against the pattern '*' + suffix, as glob applies it:
\* a name that starts with a dot is hidden from a pattern that does not.
fnmatch(name, suffix) ==
    /\ ~startswith(name, <<".">>)
    /\ endswith(name, suffix)

\* glob.glob(os.path.join(dirname, '*' + suffix)), the scan enumerating the
\* directory in the given order.
glob(dirs_, tree_, dirname, suffix, order) ==
    LET names == Enumerate(listdir(dirs_, tree_, dirname), order)
        kept == SelectSeq(names, LAMBDA n : fnmatch(n, suffix))
    IN  [i \in 1..Len(kept) |-> os_path_join(dirname, kept[i])]

-----------------------------------------------------------------------------
(* ETCI2021._load_files                                                    *)

\* The two replacements of the water mask path in the other order.
water_mask_first(path) ==
    replace(replace(path, vv, water_body_label), _vv_png, dot_png)

\* vv.replace('_vv.png', '.png').replace('vv', 'water_body_label')
water_mask_of(path) ==
    replace(replace(path, _vv_png, dot_png), vv, water_body_label)

\* vv.replace('_vv.png', '.png').replace('vv', 'flood_label')
flood_mask_of(path) ==
    replace(replace(path, _vv_png, dot_png), vv, flood_label)

\* vv.replace('vv', 'vh')
vh_of(path) ==
    replace(path, vv, vh)

\* The dict appended for one vv path.
PathGroup(split, path) ==
    IF split # "test"
    THEN [vv |-> path, vh |-> vh_of(path),
          flood_mask |-> flood_mask_of(path),
          water_mask |-> water_mask_of(path)]
    ELSE [vv |-> path, vh |-> vh_of(path), water_mask |-> water_mask_of(path)]

RECURSIVE Flatten(_)
Flatten(seqs) ==
    IF seqs = <<>> THEN <<>> ELSE Head(seqs) \o Flatten(Tail(seqs))

_load_files(dirs_, tree_, root, split, order) ==
    LET directory == metadata[split].directory
        found == sorted(glob(dirs_, tree_, os_path_join(root, directory),
                             <<>>, order))
        folders == [i \in 1..Len(found) |-> os_path_join(found[i], tiles)]
        vvs(folder) == sorted(glob(dirs_, tree_, os_path_join(folder, vv),
                                   dot_png, order))
        groups(folder) ==
            LET paths == vvs(folder)
            IN  [i \in 1..Len(paths) |-> PathGroup(split, paths[i])]
    IN  Flatten([i \in 1..Len(folders) |-> groups(folders[i])])

-----------------------------------------------------------------------------
(* ETCI2021.__init__, _check_integrity and _download                       *)

\* An integrity check that does not look at the disk.
always_found(dirs_, root, split) ==
    TRUE

\* os.path.exists(os.path.join(self.root, directory))
_check_integrity(dirs_, root, split) ==
    os_path_join(root, metadata[split].directory) \in dirs_

\* What download_and_extract_archive may do: extract the archive into the
\* split's directory, extract it without that directory appearing, or raise
\* (no network, a checksum that does not match).
FetchOutcomes == {"extracted", "elsewhere", "raised"}

download_and_extract_archive(dirs_, root, split, md5, outcome) ==
    [dirs |-> IF outcome = "extracted"
              THEN dirs_ \cup {os_path_join(root, metadata[split].directory)}
              ELSE dirs_,
     raised |-> outcome = "raised",
     events |-> <<[op |-> "download_and_extract_archive",
                   filename |-> metadata[split].filename, md5 |-> md5]>>]

_download(dirs_, root, split, checksum, outcome) ==
    LET checked == <<[op |-> "_check_integrity", by |-> "_download"]>>
    IN  IF _check_integrity(dirs_, root, split)
        THEN [dirs |-> dirs_, raised |-> FALSE, events |-> checked]
        ELSE LET got == download_and_extract_archive(
                            dirs_, root, split,
                            IF checksum THEN metadata[split].md5 ELSE "None",
                            outcome)
             IN  [got EXCEPT !.events = checked \o got.events]

\* download is False: nothing is checked or fetched.
no_download(dirs_, root, split, checksum, outcome) ==
    [dirs |-> dirs_, raised |-> FALSE, events |-> <<>>]

\* if download: self._download()
download_step(download, dirs_, root, split, checksum, outcome) ==
    IF download THEN _download(dirs_, root, split, checksum, outcome)
    ELSE no_download(dirs_, root, split, checksum, outcome)

\* The transform hooks tried: none, the identity, and one that swaps the
\* two classes of the mask.
Transforms == {"None", "identity", "invert"}

\* split in self.metadata.keys()
split_is_known(split) ==
    split \in DOMAIN metadata

\* A constructor that takes any split.
split_unchecked(split) ==
    TRUE

\* assert split in self.metadata.keys()
split_asserted(split) ==
    split_is_known(split)

\* The constructor: the object it leaves, the directories on disk after
\* it, the calls it made, and the exception it raised, if any.  A split
\* that metadata does not hold and that got past the assert raises
\* KeyError at the first metadata[self.split], in _check_integrity.
__init__(dirs_, tree_, root, split, transforms, download, checksum, outcome, order) ==
    LET self == [root |-> root, split |-> split, transforms |-> transforms,
                 checksum |-> checksum]
        check == <<[op |-> "_check_integrity", by |-> "__init__"]>>
    IN  IF ~split_asserted(split)
        THEN [ds |-> [state |-> "AssertionError"], dirs |-> dirs_,
              events |-> <<>>, raised |-> "AssertionError"]
        ELSE IF ~split_is_known(split)
        THEN [ds |-> [state |-> "KeyError"] @@ self, dirs |-> dirs_,
              events |-> <<[op |-> "_check_integrity",
                            by |-> IF download THEN "_download"
                                   ELSE "__init__"]>>,
              raised |-> "KeyError"]
        ELSE
        LET dl == download_step(download, dirs_, root, split, checksum, outcome)
        IN  IF dl.raised
            THEN [ds |-> [state |-> "RuntimeError"] @@ self, dirs |-> dl.dirs,
                  events |-> dl.events, raised |-> "RuntimeError"]
            ELSE IF ~_check_integrity(dl.dirs, root, split)
            THEN [ds |-> [state |-> "DatasetNotFoundError"] @@ self,
                  dirs |-> dl.dirs, events |-> dl.events \o check,
                  raised |-> "DatasetNotFoundError"]
            ELSE [ds |-> [state |-> "ok",
                          files |-> _load_files(dl.dirs, tree_, root, split,
                                                order)] @@ self,
                  dirs |-> dl.dirs,
                  events |-> dl.events \o check \o <<[op |-> "_load_files"]>>,
                  raised |-> "None"]

\* len(self.files)
__len__(self) ==
    Len(self.files)

-----------------------------------------------------------------------------
(* Images on disk, arrays and tensors.                                     *)

\* What Image.open finds at a path: no image it can decode, or the pixels.
Unreadable == [ok |-> FALSE, px |-> <<>>]
Image(px) == [ok |-> TRUE, px |-> px]

\* A colour image of h x w pixels.  Its pixel values stay symbolic: the
\* value of channel ch of pixel (r, c) of image id is <<id, r, c, ch>>.
ColourImage(id, h, w) ==
    [r \in 1..h |-> [c \in 1..w |-> [ch \in 1..3 |-> <<id, r, c, ch>>]]]

UInt8Max == 255

\* A greyscale image of h x w pixels, 8 bits each: a ramp from base in
\* steps of step, row by row.
GreyImage(h, w, base, step) ==
    [r \in 1..h |-> [c \in 1..w |->
        (base + step * ((r - 1) * w + (c - 1))) % (UInt8Max + 1)]]

\* tensor.permute((2, 0, 1)): H x W x C to C x H x W.
permute_2_0_1(array) ==
    [ch \in 1..Len(array[1][1]) |->
        [r \in 1..Len(array) |->
            [c \in 1..Len(array[1]) |-> array[r][c][ch]]]]

\* _load_image on the opened file: np.array(img.convert('RGB')), as floats
\* (the values are kept), permuted.
_load_image(img) ==
    permute_2_0_1(img)

\* A clamp that has no upper limit.
clamp_min_only(x, min, max) ==
    IF x < min THEN min ELSE x

\* Tensor.clamp of one element.
clamp(x, min, max) ==
    IF x < min THEN min ELSE IF x > max THEN max ELSE x

\* torch.clamp(tensor, min, max), elementwise over an H x W tensor.
torch_clamp(tensor, min, max) ==
    [r \in 1..Len(tensor) |->
        [c \in 1..Len(tensor[1]) |-> clamp(tensor[r][c], min, max)]]

\* _load_target on the opened file: np.array(img.convert('L')), clamped
\* to [0, 1], as longs (the values are kept).
_load_target(img) ==
    torch_clamp(img, 0, 1)

\* The sizes of the two innermost axes of a C x H x W tensor.
PlaneShape(tensor) == <<Len(tensor[1]), Len(tensor[1][1])>>

\* The shape of an H x W tensor.
Shape2(tensor) == <<Len(tensor), Len(tensor[1])>>

\* torch.stack(tensors=[water_mask, flood_mask], dim=0)
torch_stack(water_mask, flood_mask) ==
    <<water_mask, flood_mask>>

\* The two bands concatenated in the other order.
cat_vh_first(vv_, vh_) ==
    vh_ \o vv_

\* torch.cat(tensors=[vv, vh], dim=0)
torch_cat(vv_, vh_) ==
    vv_ \o vh_

\* water_mask.unsqueeze(0)
unsqueeze_0(tensor) ==
    <<tensor>>

-----------------------------------------------------------------------------
(* ETCI2021.__getitem__                                                    *)

\* An index check that takes no negative index.
list_index_nonnegative(n, index) ==
    index \in 0..(n - 1)

\* Whether list[index] is an element of a list of length n.
list_index_ok(n, index) ==
    index \in (0 - n)..(n - 1)

\* list[index], the lists here being sequences from 1.
list_getitem(list, index) ==
    IF index < 0 THEN list[Len(list) + index + 1] ELSE list[index + 1]

\* The hook applied to a sample.
Hook(transforms, sample) ==
    IF transforms = "invert"
    THEN [sample EXCEPT !.mask =
            [p \in 1..Len(sample.mask) |->
                [r \in 1..Len(sample.mask[p]) |->
                    [c \in 1..Len(sample.mask[p][r]) |->
                        1 - sample.mask[p][r][c]]]]]
    ELSE sample

\* The sample returned as assembled, the hook not called.
hook_skipped(self, sample) ==
    [sample |-> sample, hooked |-> <<>>]

\* if self.transforms is not None: sample = self.transforms(sample)
apply_transforms(self, sample) ==
    IF self.transforms # "None"
    THEN LET out == Hook(self.transforms, sample)
         IN  [sample |-> out, hooked |-> <<[arg |-> sample, result |-> out]>>]
    ELSE [sample |-> sample, hooked |-> <<>>]

Raise(exc, opened) ==
    [ret |-> [kind |-> "raise", exc |-> exc], opened |-> opened,
     hooked |-> <<>>]

\* disk maps a path to the image the file holds, or to Unreadable.  The
\* result: what is returned or raised, the files opened (in order) and the
\* calls made to the hook.
__getitem__(self, index, disk) ==
    IF ~list_index_ok(Len(self.files), index)
    THEN Raise("IndexError", <<>>)
    ELSE
    LET files == list_getitem(self.files, index)
        o1 == <<files.vv>>
        o2 == o1 \o <<files.vh>>
        o3 == o2 \o <<files.water_mask>>
    IN  IF ~disk[files.vv].ok THEN Raise("DecodeError", o1)
        ELSE IF ~disk[files.vh].ok THEN Raise("DecodeError", o2)
        ELSE IF ~disk[files.water_mask].ok THEN Raise("DecodeError", o3)
        ELSE
        LET vv_ == _load_image(disk[files.vv].px)
            vh_ == _load_image(disk[files.vh].px)
            water_mask == _load_target(disk[files.water_mask].px)
            o4 == IF self.split # "test" THEN o3 \o <<files.flood_mask>>
                  ELSE o3
        IN  IF self.split # "test" /\ ~disk[files.flood_mask].ok
            THEN Raise("DecodeError", o4)
            ELSE IF /\ self.split # "test"
                    /\ Shape2(_load_target(disk[files.flood_mask].px))
                            # Shape2(water_mask)
            THEN Raise("RuntimeError", o4)
            ELSE IF PlaneShape(vv_) # PlaneShape(vh_)
            THEN Raise("RuntimeError", o4)
            ELSE
            LET mask == IF self.split # "test"
                        THEN torch_stack(water_mask,
                                         _load_target(disk[files.flood_mask].px))
                        ELSE unsqueeze_0(water_mask)
                image == torch_cat(vv_, vh_)
                done == apply_transforms(self,
                                         [image |-> image, mask |-> mask])
            IN  [ret |-> [kind |-> "value", value |-> done.sample],
                 opened |-> o4, hooked |-> done.hooked]

-----------------------------------------------------------------------------
(* ETCI2021.plot                                                           *)

\* np.rollaxis(tensor.numpy(), 0, 3): C x H x W to H x W x C.
np_rollaxis_0_3(tensor) ==
    [r \in 1..Len(tensor[1]) |->
        [c \in 1..Len(tensor[1][1]) |->
            [ch \in 1..Len(tensor) |-> tensor[ch][r][c]]]]

\* An array with the number of its axes.
Array(ndim, values) == [ndim |-> ndim, values |-> values]

\* tensor.squeeze(0) of a three-axis tensor: axis 0 goes if its size is 1.
squeeze_0(tensor) ==
    IF Len(tensor) = 1 THEN Array(2, tensor[1]) ELSE Array(3, tensor)

\* Axes.imshow takes an M x N array, or an M x N x 3 or M x N x 4 one;
\* any other shape raises TypeError.
imshow_ok(array) ==
    \/ array.ndim = 2
    \/ /\ array.ndim = 3
       /\ Len(array.values[1][1]) \in {3, 4}

\* The figure plot returns: the number of axes made, the panels drawn on
\* them from the left, and the suptitle.  When an imshow raises, the
\* panels are those drawn before it.
plot(sample, show_titles, suptitle) ==
    LET vv_ == Array(3, np_rollaxis_0_3(SubSeq(sample.image, 1, 3)))
        vh_ == Array(3, np_rollaxis_0_3(SubSeq(sample.image, 4,
                                               Len(sample.image))))
        mask == squeeze_0(sample.mask)
        showing_flood_mask == Len(mask.values) = 2
        showing_predictions == "prediction" \in DOMAIN sample
        water_mask == IF showing_flood_mask
                      THEN Array(mask.ndim - 1, mask.values[1])
                      ELSE mask
        num_panels == 3 + (IF showing_flood_mask THEN 1 ELSE 0)
                        + (IF showing_predictions THEN 1 ELSE 0)
        Title(t) == IF show_titles THEN t ELSE "None"
        planned ==
            << [name |-> "VV", shown |-> vv_, title |-> Title("VV")],
               [name |-> "VH", shown |-> vh_, title |-> Title("VH")],
               [name |-> "Water mask", shown |-> water_mask,
                title |-> Title("Water mask")] >>
            \o (IF showing_flood_mask
                THEN <<[name |-> "Flood mask",
                        shown |-> Array(mask.ndim - 1, mask.values[2]),
                        title |-> Title("Flood mask")]>>
                ELSE <<>>)
            \o (IF showing_predictions
                THEN <<[name |-> "Predictions",
                        shown |-> Array(2, sample.prediction),
                        title |-> Title("Predictions")]>>
                ELSE <<>>)
        bad == {i \in 1..Len(planned) : ~imshow_ok(planned[i].shown)}
    IN  IF bad = {}
        THEN [kind |-> "value",
              value |-> [num_panels |-> num_panels, panels |-> planned,
                         suptitle |-> suptitle]]
        ELSE LET k == CHOOSE i \in bad : \A j \in bad : i <= j
                 drawn == SubSeq(planned, 1, k - 1)
             IN  [kind |-> "raise", exc |-> "TypeError",
                  num_panels |-> num_panels,
                  panels |-> [i \in 1..Len(drawn) |->
                                IF k <= 3
                                THEN [drawn[i] EXCEPT !.title = "None"]
                                ELSE drawn[i]]]

-----------------------------------------------------------------------------
(* Discovery on its own: _load_files over a bounded directory tree.        *)

NoDataset == [state |-> "none"]
NoCall == [op |-> "none"]
NoReturn == [kind |-> "none"]

InitFiles ==
    /\ tree \in Trees
    /\ dirs = UNION {SplitDirs(root) : root \in Roots}
    /\ ds = NoDataset
    /\ call = NoCall
    /\ ret = NoReturn

\* A first run of discovery.
LoadFiles ==
    /\ call = NoCall
    /\ \E root \in Roots, split \in Splits, order \in ScanOrders :
        /\ call' = [op |-> "_load_files", root |-> root, split |-> split]
        /\ ret' = [kind |-> "value",
                   value |-> _load_files(dirs, tree, root, split, order)]
    /\ UNCHANGED <<dirs, tree, ds>>

\* Discovery run again on the unchanged tree, the scans enumerating the
\* directories in any order.
ReloadFiles ==
    /\ call # NoCall
    /\ \E order \in ScanOrders :
        ret' = [kind |-> "value",
                value |-> _load_files(dirs, tree, call.root, call.split, order)]
    /\ UNCHANGED <<dirs, tree, ds, call>>

NextFiles == LoadFiles \/ ReloadFiles

SpecFiles == InitFiles /\ [][NextFiles]_vars

-----------------------------------------------------------------------------
(* Claims about discovery (checked under SpecFiles).                       *)

Discovered == call.op = "_load_files" /\ ret.kind = "value"

SplitDirOfCall == call.root \o <<"/">> \o metadata[call.split].directory

\* The files of the tree that the pattern '*.png' names.
PngEntries ==
    {e \in tree : /\ SplitDirOfCall \in dirs
                  /\ Head(e[2]) # "."
                  /\ Len(e[2]) >= 4
                  /\ SubSeq(e[2], Len(e[2]) - 3, Len(e[2])) = <<".", "p", "n", "g">>}

FolderPathOf(e) == SplitDirOfCall \o <<"/">> \o e[1]

VvPathOf(e) ==
    FolderPathOf(e) \o <<"/", "t", "i", "l", "e", "s", "/", "v", "v", "/">> \o e[2]

EntryOf(path) == CHOOSE e \in PngEntries : VvPathOf(e) = path

\* C5: the file index holds exactly one group per '*.png' file under an
\* entry's tiles/vv, ordered by the entry's folder path and, within one
\* folder, by vv path, both lexicographically; the index is therefore the
\* same whatever order the scans enumerate the directories in.
C5_DiscoveryOrdered ==
    Discovered =>
        LET files == ret.value
        IN  /\ Len(files) = Cardinality(PngEntries)
            /\ {files[i].vv : i \in 1..Len(files)}
                    = {VvPathOf(e) : e \in PngEntries}
            /\ \A i, j \in 1..Len(files) :
                    i < j =>
                        LET ei == EntryOf(files[i].vv)
                            ej == EntryOf(files[j].vv)
                        IN  \/ str_lt(FolderPathOf(ei), FolderPathOf(ej))
                            \/ /\ ei[1] = ej[1]
                               /\ str_lt(files[i].vv, files[j].vv)

\* Two folders, one of them holding two tiles, have been indexed.
C5_Witness ==
    /\ Discovered
    /\ Len(ret.value) = 3
    /\ Cardinality({EntryOf(ret.value[i].vv)[1] : i \in 1..3}) = 2

\* The vv path of entry e holds 'vv' in the folder segment and in the
\* '_vv.png' suffix and nowhere else.
PlainVvPath(e) ==
    /\ Len(e[2]) >= 7
    /\ SubSeq(e[2], Len(e[2]) - 6, Len(e[2]))
            = <<"_", "v", "v", ".", "p", "n", "g">>
    /\ Occurrences(VvPathOf(e), <<"v", "v">>)
            = {Len(FolderPathOf(e)) + 8, Len(VvPathOf(e)) - 5}

TileId(e) == SubSeq(e[2], 1, Len(e[2]) - 7)

Companion(e, folder, suffix) ==
    FolderPathOf(e) \o <<"/", "t", "i", "l", "e", "s", "/">> \o folder
        \o <<"/">> \o TileId(e) \o suffix

\* C6: a vv path <root>/<split directory>/<entry>/tiles/vv/<id>_vv.png that
\* holds 'vv' only in the folder segment and the suffix is paired with
\* tiles/vh/<id>_vh.png, tiles/water_body_label/<id>.png and, except for the
\* test split, tiles/flood_label/<id>.png of the same entry; a group of the
\* test split has no flood_mask key.
C6_Pairing ==
    Discovered =>
        \A i \in 1..Len(ret.value) :
            LET g == ret.value[i]
                e == EntryOf(g.vv)
            IN  /\ DOMAIN g = IF call.split = "test"
                              THEN {"vv", "vh", "water_mask"}
                              ELSE {"vv", "vh", "water_mask", "flood_mask"}
                /\ PlainVvPath(e) =>
                    /\ g.vh = Companion(e, <<"v", "h">>,
                                        <<"_", "v", "h", ".", "p", "n", "g">>)
                    /\ g.water_mask
                         = Companion(e, water_body_label, <<".", "p", "n", "g">>)
                    /\ call.split # "test" =>
                         g.flood_mask
                           = Companion(e, flood_label, <<".", "p", "n", "g">>)

\* A train group and its companions, from a plain vv path.
C6_Witness ==
    /\ Discovered
    /\ call.split = "train"
    /\ \E i \in 1..Len(ret.value) : PlainVvPath(EntryOf(ret.value[i].vv))

\* s with every occurrence of old replaced by new, the occurrences taken
\* from the left and not overlapping.
RECURSIVE EveryReplaced(_, _, _)
EveryReplaced(s, old, new) ==
    LET occ == Occurrences(s, old)
    IN  IF occ = {} THEN s
        ELSE LET first == CHOOSE i \in occ : \A k \in occ : i <= k
             IN  SubSeq(s, 1, first - 1) \o new
                    \o EveryReplaced(SubSeq(s, first + Len(old), Len(s)),
                                     old, new)

\* s with the leftmost occurrence of old, if any, replaced by new.
FirstReplaced(s, old, new) ==
    LET occ == Occurrences(s, old)
    IN  IF occ = {} THEN s
        ELSE LET first == CHOOSE i \in occ : \A k \in occ : i <= k
             IN  SubSeq(s, 1, first - 1) \o new
                    \o SubSeq(s, first + Len(old), Len(s))

\* C10 as stated: each companion path is the vv path with only the first
\* occurrence of 'vv' (and of '_vv.png') replaced.
C10_FirstOccurrenceOnly ==
    Discovered =>
        \A i \in 1..Len(ret.value) :
            LET g == ret.value[i]
                stem == FirstReplaced(g.vv, _vv_png, dot_png)
            IN  /\ g.vh = FirstReplaced(g.vv, vv, vh)
                /\ g.water_mask = FirstReplaced(stem, vv, water_body_label)
                /\ call.split # "test" =>
                        g.flood_mask = FirstReplaced(stem, vv, flood_label)

\* C10, amended: each companion path is the vv path with every occurrence
\* of 'vv' replaced (by 'vh'; or, after every '_vv.png' has become '.png',
\* by 'water_body_label' / 'flood_label'), the occurrences taken from the
\* left and not overlapping.
C10_EveryOccurrence ==
    Discovered =>
        \A i \in 1..Len(ret.value) :
            LET g == ret.value[i]
                stem == EveryReplaced(g.vv, _vv_png, dot_png)
            IN  /\ g.vh = EveryReplaced(g.vv, vv, vh)
                /\ g.water_mask = EveryReplaced(stem, vv, water_body_label)
                /\ call.split # "test" =>
                        g.flood_mask = EveryReplaced(stem, vv, flood_label)

\* A vv path holding 'vv' more than twice has been paired.
C10_Witness ==
    /\ Discovered
    /\ \E i \in 1..Len(ret.value) :
            Cardinality(Occurrences(ret.value[i].vv, vv)) > 2

-----------------------------------------------------------------------------
(* Construction: the constructor run once against a bounded disk.          *)

\* Listings of one entry that hold '.png' files only.
InitTrees ==
    {t \in Trees : \A e \in t : e[1] = FolderList[1] /\ endswith(e[2], dot_png)}

SplitArgs == Splits \cup {"bogus"}

InitInit ==
    /\ dirs \in SUBSET SplitDirs(data)
    /\ tree \in InitTrees
    /\ ds = NoDataset
    /\ call = NoCall
    /\ ret = NoReturn

Construct ==
    /\ ds = NoDataset
    /\ \E split \in SplitArgs, transforms \in Transforms,
          download \in BOOLEAN, checksum \in BOOLEAN,
          outcome \in FetchOutcomes, order \in ScanOrders :
        LET made == __init__(dirs, tree, data, split, transforms, download,
                             checksum, outcome, order)
        IN  /\ ds' = made.ds
            /\ dirs' = made.dirs
            /\ call' = [op |-> "__init__", split |-> split,
                        download |-> download, before |-> dirs,
                        events |-> made.events]
            /\ ret' = IF made.raised = "None" THEN [kind |-> "value"]
                      ELSE [kind |-> "raise", exc |-> made.raised]
    /\ UNCHANGED tree

NextInit == Construct

SpecInit == InitInit /\ [][NextInit]_vars

-----------------------------------------------------------------------------
(* The constructed dataset: __getitem__ and plot.                          *)

\* The on-disk encoding of the masks: 0 and 255.
MaskFills == {0, UInt8Max}

Heights == 1..MaxDim
Widths == 1..MaxDim

ColourFiles(id, w) ==
    {Unreadable} \cup {Image(ColourImage(id, h, w)) : h \in Heights}

MaskFiles(w) ==
    {Unreadable}
        \cup {Image(GreyImage(h, w, fill, 0)) : h \in Heights, fill \in MaskFills}

\* The disks tried for one group: every file unreadable or an image, the
\* images of one width and each of its own height.
Disks(group) ==
    UNION {
        IF "flood_mask" \in DOMAIN group
        THEN [vv : ColourFiles("vv", w), vh : ColourFiles("vh", w),
              water_mask : MaskFiles(w), flood_mask : MaskFiles(w)]
        ELSE [vv : ColourFiles("vv", w), vh : ColourFiles("vh", w),
              water_mask : MaskFiles(w)]
        : w \in Widths}

\* The disk as __getitem__ reads it: by path.
ByPath(group, d) ==
    [p \in {group[k] : k \in DOMAIN group} |->
        d[CHOOSE k \in DOMAIN group : group[k] = p]]

Init ==
    /\ dirs = SplitDirs(data)
    /\ tree \in InitTrees
    /\ \E split \in Splits, transforms \in Transforms, order \in ScanOrders :
        ds = __init__(dirs, tree, data, split, transforms, FALSE, FALSE,
                      "elsewhere", order).ds
    /\ call = NoCall
    /\ ret = NoReturn

\* One access.  __getitem__ assigns to nothing, so the object is the same
\* after it and a later access reaches only what a first access reaches:
\* the accesses of a behaviour start from the fresh object.
Getitem ==
    /\ call = NoCall
    /\ \E index \in (0 - MaxIndex)..MaxIndex :
        LET n == Len(ds.files)
            groups == IF index \in (0 - n)..(n - 1)
                      THEN {list_getitem(ds.files, index)} ELSE {}
            disks == IF groups = {} THEN {<<>>}
                     ELSE UNION {{ByPath(g, d) : d \in Disks(g)} : g \in groups}
        IN  \E disk \in disks :
                LET out == __getitem__(ds, index, disk)
                IN  /\ call' = [op |-> "__getitem__", index |-> index,
                                opened |-> out.opened,
                                read |-> [i \in 1..Len(out.opened) |->
                                            disk[out.opened[i]]],
                                hooked |-> out.hooked]
                    /\ ret' = out.ret
    /\ UNCHANGED <<dirs, tree, ds>>

\* plot on the sample __getitem__ just returned, a prediction added to it
\* or not.
Plot ==
    /\ call.op = "__getitem__"
    /\ ret.kind = "value"
    /\ \E show_titles \in BOOLEAN, suptitle \in {"None", "ETCI"},
          predicted \in BOOLEAN :
        LET sample == IF predicted
                      THEN ret.value @@ [prediction |-> ret.value.mask[1]]
                      ELSE ret.value
        IN  /\ call' = [op |-> "plot", sample |-> sample,
                        show_titles |-> show_titles, suptitle |-> suptitle]
            /\ ret' = plot(sample, show_titles, suptitle)
    /\ UNCHANGED <<dirs, tree, ds>>

Next == Getitem \/ Plot

Spec == Init /\ [][Next]_vars

-----------------------------------------------------------------------------
(* Mask decoding on its own: _load_target over bounded greyscale images.   *)

Steps == {0, 1, 127}

InitTarget ==
    /\ dirs = {}
    /\ tree = {}
    /\ ds = NoDataset
    /\ \E h \in Heights, w \in Widths, base \in 0..UInt8Max, step \in Steps :
        call = [op |-> "_load_target", img |-> GreyImage(h, w, base, step)]
    /\ ret = NoReturn

LoadTarget ==
    /\ call.op = "_load_target"
    /\ ret' = [kind |-> "value", value |-> _load_target(call.img)]
    /\ UNCHANGED <<dirs, tree, ds, call>>

NextTarget == LoadTarget

SpecTarget == InitTarget /\ [][NextTarget]_vars

-----------------------------------------------------------------------------
(* Claims about construction (checked under SpecInit).                     *)

Constructed == call.op = "__init__"

TargetDir == data \o <<"/">> \o metadata[call.split].directory

\* The places in the constructor's calls of the calls of one kind.
EventsOf(op, by) ==
    {i \in 1..Len(call.events) :
        /\ call.events[i].op = op
        /\ op = "_check_integrity" => call.events[i].by = by}

\* C3: a split other than 'train', 'val' and 'test' fails the constructor
\* with the assertion error before anything else happens: no integrity
\* check, no fetch (even with download set), no discovery, and the disk is
\* as it was.
C3_BogusSplit ==
    (Constructed /\ call.split \notin {"train", "val", "test"}) =>
        /\ ret = [kind |-> "raise", exc |-> "AssertionError"]
        /\ call.events = <<>>
        /\ dirs = call.before
        /\ "files" \notin DOMAIN ds

\* A bogus split, download set, has been refused on a disk where a valid
\* split would have been fetched.
C3_Witness ==
    /\ Constructed
    /\ call.split = "bogus"
    /\ call.download
    /\ call.before = {}
    /\ ret.kind = "raise"

\* C4: for a valid split the constructor raises DatasetNotFoundError
\* exactly when the split's directory is missing at the integrity check of
\* __init__, which comes after the download step; without download a
\* missing directory always raises it; and when it is raised there has
\* been no discovery and no file list is stored.
C4_NotFound ==
    (Constructed /\ call.split \in {"train", "val", "test"}) =>
        LET checks == EventsOf("_check_integrity", "__init__")
            notFound == ret = [kind |-> "raise", exc |-> "DatasetNotFoundError"]
        IN  /\ notFound <=> (checks # {} /\ TargetDir \notin dirs)
            /\ \A i \in checks :
                \A j \in EventsOf("_check_integrity", "_download")
                         \cup EventsOf("download_and_extract_archive", "") :
                    j < i
            /\ call.download => EventsOf("_check_integrity", "_download") = {1}
            /\ (~call.download /\ TargetDir \notin call.before) => notFound
            /\ notFound =>
                /\ EventsOf("_load_files", "") = {}
                /\ "files" \notin DOMAIN ds

\* The archive has been fetched, the directory is still missing, and the
\* constructor has raised DatasetNotFoundError.
C4_Witness ==
    /\ Constructed
    /\ call.download
    /\ EventsOf("download_and_extract_archive", "") # {}
    /\ ret = [kind |-> "raise", exc |-> "DatasetNotFoundError"]

-----------------------------------------------------------------------------
(* Claims about access and rendering (checked under Spec).                 *)

Got == call.op = "__getitem__"

\* The group an in-range index selects, counting from 0.
GroupRead == ds.files[call.index + 1]

\* length()
Length == __len__(ds)

RolesRead ==
    IF ds.split = "test" THEN <<"vv", "vh", "water_mask">>
    ELSE <<"vv", "vh", "water_mask", "flood_mask">>

\* Every file of the group was opened and decoded, all to one height and
\* one width.
AllDecodedAlike ==
    /\ Len(call.read) = Len(RolesRead)
    /\ \A i \in 1..Len(call.read) :
        /\ call.read[i].ok
        /\ Len(call.read[i].px) = Len(call.read[1].px)
        /\ Len(call.read[i].px[1]) = Len(call.read[1].px[1])

ClassOf(v) == IF v >= 1 THEN 1 ELSE v

\* C1: with no transform, an index in [0, length()) whose files all decode
\* to one height and width yields a sample whose image has 6 channels, the
\* 3 of vv then the 3 of vh, and whose mask has 1 plane (water) for the
\* test split and 2 planes (water, then flood) otherwise.
C1_SampleLayout ==
    (/\ Got
     /\ ds.transforms = "None"
     /\ call.index \in 0..(Length - 1)
     /\ AllDecodedAlike) =>
        /\ call.opened = [i \in 1..Len(RolesRead) |-> GroupRead[RolesRead[i]]]
        /\ ret.kind = "value"
        /\ DOMAIN ret.value = {"image", "mask"}
        /\ LET image == ret.value.image
               mask == ret.value.mask
               H == Len(call.read[1].px)
               W == Len(call.read[1].px[1])
           IN  /\ Len(image) = 6
               /\ Len(mask) = IF ds.split = "test" THEN 1 ELSE 2
               /\ \A r \in 1..H, c \in 1..W :
                    /\ \A ch \in 1..3 :
                        /\ image[ch][r][c] = call.read[1].px[r][c][ch]
                        /\ image[3 + ch][r][c] = call.read[2].px[r][c][ch]
                    /\ \A p \in 1..Len(mask) :
                        mask[p][r][c] = ClassOf(call.read[2 + p].px[r][c])
               /\ \A p \in 1..Len(image) :
                    Len(image[p]) = H /\ Len(image[p][1]) = W
               /\ \A p \in 1..Len(mask) :
                    Len(mask[p]) = H /\ Len(mask[p][1]) = W

\* A train sample of more than one pixel whose water and flood planes
\* differ has been assembled.
C1_Witness ==
    /\ Got
    /\ ds.transforms = "None"
    /\ ds.split = "train"
    /\ call.index = 1
    /\ AllDecodedAlike
    /\ Len(call.read[1].px) = 2
    /\ call.read[3].px # call.read[4].px
    /\ ret.kind = "value"

\* C2 as stated: every index outside [0, length()), the negative ones
\* included, raises IndexError with no file decoded and no sample
\* returned.
C2_OutsideAlwaysRaises ==
    (Got /\ call.index \notin 0..(Length - 1)) =>
        /\ ret = [kind |-> "raise", exc |-> "IndexError"]
        /\ call.opened = <<>>

\* C2, amended: every index >= length() and every index < -length()
\* raises IndexError with no file decoded, no hook called and no sample
\* returned; an index in [-length(), 0) does not: it selects group
\* length() + index, as Python's list indexing does.
C2_IndexError ==
    Got =>
        LET n == Length
        IN  /\ (call.index >= n \/ call.index < 0 - n) =>
                /\ ret = [kind |-> "raise", exc |-> "IndexError"]
                /\ call.opened = <<>>
                /\ call.hooked = <<>>
            /\ (call.index < 0 /\ call.index >= 0 - n) =>
                /\ ret # [kind |-> "raise", exc |-> "IndexError"]
                /\ call.opened[1] = ds.files[n + call.index + 1].vv

\* get(length()) has raised on a dataset that is not empty.
C2_Witness ==
    /\ Got
    /\ Length >= 1
    /\ call.index = Length
    /\ ret = [kind |-> "raise", exc |-> "IndexError"]

\* The disk as the access found it, by path.
DiskRead ==
    [p \in {call.opened[i] : i \in 1..Len(call.opened)} |->
        call.read[CHOOSE i \in 1..Len(call.opened) : call.opened[i] = p]]

\* What the same access returns from a dataset with no hook.
PlainSample ==
    __getitem__([ds EXCEPT !.transforms = "None"], call.index, DiskRead).ret.value

\* C7: with a hook configured, a successful access calls the hook exactly
\* once, on the sample just assembled, and returns exactly what the hook
\* returned; with the identity hook that is the sample a dataset with no
\* hook returns.
C7_TransformApplied ==
    (Got /\ ret.kind = "value" /\ ds.transforms # "None") =>
        /\ Len(call.hooked) = 1
        /\ DOMAIN call.hooked[1].arg = {"image", "mask"}
        /\ call.hooked[1].arg = PlainSample
        /\ ret.value = call.hooked[1].result
        /\ ds.transforms = "identity" => ret.value = PlainSample

\* A hook that changes the sample has been applied.
C7_Witness ==
    /\ Got
    /\ ret.kind = "value"
    /\ ds.transforms = "invert"
    /\ Len(call.hooked) = 1
    /\ ret.value # call.hooked[1].arg

\* C9: for a mask of P planes, P in {1, 2}, the renderer draws exactly
\* 3 + (1 if P = 2) + (1 if the sample has a prediction) panels, in the
\* order VV, VH, water mask, [flood mask], [prediction]; the flood panel is
\* drawn exactly when the mask has 2 planes, whatever the image height.
C9_PanelsFromPlanes ==
    (call.op = "plot" /\ Len(call.sample.mask) \in {1, 2}) =>
        LET P == Len(call.sample.mask)
            expected ==
                <<"VV", "VH", "Water mask">>
                \o (IF P = 2 THEN <<"Flood mask">> ELSE <<>>)
                \o (IF "prediction" \in DOMAIN call.sample
                    THEN <<"Predictions">> ELSE <<>>)
        IN  /\ ret.kind = "value"
            /\ ret.value.num_panels = Len(expected)
            /\ [i \in 1..Len(ret.value.panels) |-> ret.value.panels[i].name]
                    = expected

-----------------------------------------------------------------------------
(* The claim about mask decoding (checked under SpecTarget).               *)

\* C8: a decoded mask pixel v in 0..255 becomes the class min(v, 1): 0
\* stays 0 and every value from 1 to 255 becomes 1, so a mask plane holds
\* only 0 and 1.
C8_ClampToClass ==
    (call.op = "_load_target" /\ ret.kind = "value") =>
        /\ Len(ret.value) = Len(call.img)
        /\ \A r \in 1..Len(call.img) :
            /\ Len(ret.value[r]) = Len(call.img[r])
            /\ \A c \in 1..Len(call.img[r]) :
                /\ ret.value[r][c] \in {0, 1}
                /\ ret.value[r][c] = IF call.img[r][c] = 0 THEN 0 ELSE 1

\* A mask holding 128 and 255 has been decoded.
C8_Witness ==
    /\ call.op = "_load_target"
    /\ ret.kind = "value"
    /\ \E r \in 1..Len(call.img) :
        \E c1, c2 \in 1..Len(call.img[r]) :
            call.img[r][c1] = 128 /\ call.img[r][c2] = 255

====
